---------------------------- MODULE Spec2Model ----------------------------
(***************************************************************************)
(* A model of the segment-to-timeline assembly of youtube-automation:      *)
(* build_video (video_builder.py) with the resolver fetch_asset_url        *)
(* (download_assets.py) and Segment (transcribe.py).                        *)
(*                                                                         *)
(* Times are integers in milliseconds (0.1 s = 100).  A query or a text is *)
(* a sequence of words; a word is a string of the vocabulary below.        *)
(***************************************************************************)
EXTENDS Integers, Sequences, FiniteSets, TLC

(* ------------------------------ bounds -------------------------------- *)

\* Longest segment list handed to build_video.
MaxSegs == 2

\* Longest candidate list one search call returns.
MaxCands == 2

(* ------------------------- program constants -------------------------- *)

\* Segment.dur: max(0.1, end - start)
MinDur == 100

\* build_video: base.duration <= seg.dur + 0.2
CutTolerance == 200

\* extend_clip_to_duration: clip.duration < 0.5
FreezeBelow == 500

\* extend_clip_to_duration: freeze(clip, t=clip.duration - 0.01, ...)
FreezeBack == 10

\* build_video: base_overlap = 6.0 / fps
FadeFrames == 6

\* build_video: min(base_overlap, 0.25, ...)
MaxOverlap == 250

\* build_video: a.duration * 0.25 (one quarter)
OverlapDivisor == 4

\* extract_keywords(title, topk=2), extract_keywords(query, topk=2)
TopK2 == 2

\* extract_keywords(text, topk=4)
TopK4 == 4

\* extract_keywords: len(w) > 2
MinWordLen == 2

(* ------------------------------ helpers ------------------------------- *)

Max(a, b) == IF a >= b THEN a ELSE b

Min(a, b) == IF a <= b THEN a ELSE b

\* Python's None.
None == "None"

Range(s) == {s[k] : k \in DOMAIN s}

\* All sequences over S of length 0..n.
SeqsUpTo(S, n) == UNION {[1..k -> S] : k \in 0..n}

(* ------------------------------ Segment ------------------------------- *)

\* Segment.dur
Dur(seg) == Max(MinDur, seg.end - seg.start)


(* --------------------------- Query Generator -------------------------- *)

\* The words of the model, in the order Python sorts strings.
Vocab ==
  << "abstract", "aerial", "ai", "arm", "b-roll", "background", "board",
     "canopy", "center", "cinematic", "circuit", "city", "close-up", "clouds",
     "coding", "data", "desert", "dunes", "flow", "forest", "general",
     "landscape", "lights", "macro", "moody", "motion", "mountain", "nature",
     "neon", "night", "ocean", "people", "reef", "river", "robot", "skyline",
     "slow", "street", "sunrise", "tech", "the", "timelapse", "walking",
     "waves" >>

\* Position of w in the sorted vocabulary: a < b as strings iff Rank(a) < Rank(b).
Rank(w) == CHOOSE k \in DOMAIN Vocab : Vocab[k] = w

\* len(w), for a word of the vocabulary or one cut short by text[:100]
WordLen(w) == Len(w)

\* STOP = set(stopwords.words("english")), cut to the vocabulary.
STOP == {"the"}

\* THEME_MAP
THEME_MAP(style) ==
  CASE style = "cinematic" ->
         << <<"cinematic", "b-roll">>, <<"slow", "motion", "city">>,
            <<"moody", "landscape">>, <<"ocean", "waves">>,
            <<"aerial", "skyline">> >>
    [] style = "nature" ->
         << <<"forest", "canopy">>, <<"ocean", "reef">>,
            <<"mountain", "sunrise">>, <<"river", "flow">>,
            <<"desert", "dunes">> >>
    [] style = "tech" ->
         << <<"data", "center">>, <<"robot", "arm">>,
            <<"circuit", "board", "macro">>, <<"coding", "close-up">>,
            <<"neon", "city">> >>
    [] OTHER ->
         << <<"city", "b-roll">>, <<"people", "walking">>,
            <<"clouds", "timelapse">>, <<"street", "night", "lights">>,
            <<"abstract", "background">> >>

\* The styles that get their name appended to a keyword query.
NamedStyles == {"cinematic", "nature", "tech"}

\* extract_keywords: the token filter.  Every word of the vocabulary matches
\* ^[a-zA-Z][a-zA-Z\-]+$ (two characters or more, letters and hyphens).
IsToken(w) == WordLen(w) >= 2 /\ w \notin STOP /\ WordLen(w) > MinWordLen

Tokens(text) == SelectSeq(text, IsToken)

Freq(w, toks) == Cardinality({k \in DOMAIN toks : toks[k] = w})

\* sorted(freq.items(), key=lambda x: (-x[1], x[0])): a comes before b.
RankedBefore(a, b, toks) ==
  \/ Freq(a, toks) > Freq(b, toks)
  \/ Freq(a, toks) = Freq(b, toks) /\ Rank(a) < Rank(b)

Ranked(toks) ==
  LET D == Range(toks)
      pos(w) == 1 + Cardinality({v \in D : RankedBefore(v, w, toks)})
  IN  [p \in 1..Cardinality(D) |-> CHOOSE w \in D : pos(w) = p]

\* extract_keywords(text, topk)
extract_keywords(text, topk) ==
  LET r == Ranked(Tokens(text))
  IN  SubSeq(r, 1, Min(topk, Len(r)))

\* random.choice(THEME_MAP.get(style, THEME_MAP["general"])): every outcome.
ThemeChoices(style) == Range(THEME_MAP(style))

\* title keywords: extract_keywords(title, topk=2) if title else [].
\* No title (None or "") is the empty sequence.
TitleKeywords(title) ==
  IF title = <<>> THEN <<>> ELSE extract_keywords(title, TopK2)

\* text[:100]
QueryMaxChars == 100

\* len(" ".join(words))
RECURSIVE CharLen(_)
CharLen(words) ==
  IF words = <<>> THEN 0
  ELSE IF Len(words) = 1 THEN WordLen(words[1])
  ELSE WordLen(words[1]) + 1 + CharLen(Tail(words))

\* w[:n]
Prefix(w, n) == IF n >= WordLen(w) THEN w ELSE SubSeq(w, 1, n)

\* " ".join(words)[:n] as words again: the last one may be cut short; a
\* space left at the end is not a word.
RECURSIVE TakeChars(_, _)
TakeChars(words, n) ==
  IF words = <<>> \/ n <= 0 THEN <<>>
  ELSE IF WordLen(words[1]) >= n THEN <<Prefix(words[1], n)>>
  ELSE <<words[1]>> \o TakeChars(Tail(words), n - WordLen(words[1]) - 1)

\* Faulty variant of FirstChars: the text is not cut.
FirstCharsWhole(text, n) == text

\* query = text[:100]
FirstChars(text, n) == TakeChars(text, n)

\* generate_query_for_segment: the set of queries it can return.
generate_query_for_segment(seg, style, use_full_text, title) ==
  LET text == seg.text
      tk   == TitleKeywords(title)
      kws  == extract_keywords(text, TopK4)
  IN  IF use_full_text /\ Len(text) > 0
      THEN {tk \o FirstChars(text, QueryMaxChars)}
      ELSE IF kws = <<>>
           THEN {tk \o ph : ph \in ThemeChoices(style)}
           ELSE LET ks == IF tk # <<>>
                          THEN tk \o SubSeq(kws, 1, Min(2, Len(kws)))
                          ELSE kws
                IN  {IF style \in NamedStyles THEN Append(ks, style) ELSE ks}

\* simplify_query: the set of queries it can return.
simplify_query(query, style, title) ==
  LET kws == extract_keywords(query, TopK2)
      tk  == TitleKeywords(title)
  IN  IF kws # <<>>
      THEN LET s == IF tk # <<>> THEN tk \o SubSeq(kws, 1, 1) ELSE kws
           IN  {IF style \in NamedStyles THEN Append(s, style) ELSE s}
      ELSE {tk \o ph : ph \in ThemeChoices(style)}


(* ---------------------------- Asset Resolver -------------------------- *)

\* Config.PEXELS_API_KEY / Config.PIXABAY_API_KEY: set or not.
KeyConfigs == [pexels : BOOLEAN, pixabay : BOOLEAN]

\* Config.PRIMARY_PROVIDER, Config.FALLBACK_PROVIDER (the defaults).
PRIMARY_PROVIDER == "pexels"

FALLBACK_PROVIDER == "pixabay"

\* make_provider: TRUE for a provider object, FALSE for None.
make_provider(name, keys) ==
  \/ name = "pexels" /\ keys.pexels
  \/ name = "pixabay" /\ keys.pixabay

\* build_video: image_fallback is a provider iff one of the two keys is set.
ImageFallbackAvailable(keys) == keys.pexels \/ keys.pixabay

VideoUrls == {"v1", "v2"}

ImageUrls == {"i1"}

\* What one search call can do: raise, or return a list of locators.
SearchOutcomes(urls) ==
  {[raised |-> TRUE, urls |-> <<>>]} \cup
  {[raised |-> FALSE, urls |-> u] : u \in SeqsUpTo(urls, MaxCands)}

\* Faulty variant of CaughtSearch: the search call outside any try, so that
\* its exception leaves fetch_asset_url.
UncaughtSearch(out) == out

\* try: urls = provider.search(query, count=3) ... except Exception: log.
\* The exception is swallowed and the tier yields nothing.
CaughtSearch(out) ==
  [raised |-> FALSE, urls |-> IF out.raised THEN <<>> ELSE out.urls]

\* Faulty variant of fetch_asset_url: the fallback video provider is passed
\* over.
fetch_asset_url_no_fallback(query, primary, fallback, image_fallback, po, fo, io) ==
  LET p  == CaughtSearch(po)
      im == CaughtSearch(io)
      ap == IF primary THEN <<"primary">> ELSE <<>>
      ai == ap \o (IF image_fallback THEN <<"image">> ELSE <<>>)
  IN  IF primary /\ p.urls # <<>>
      THEN [url |-> p.urls[1], asset_type |-> "video",
            cands |-> Range(p.urls), raised |-> FALSE, asked |-> ap]
      ELSE IF image_fallback /\ im.urls # <<>>
      THEN [url |-> im.urls[1], asset_type |-> "image",
            cands |-> Range(im.urls), raised |-> FALSE, asked |-> ai]
      ELSE [url |-> None, asset_type |-> "none", cands |-> {},
            raised |-> FALSE, asked |-> ai]

\* fetch_asset_url(query, primary, fallback, image_fallback).  po, fo, io are
\* what the three search calls do if they are made.  The caller also passes
\* its used_urls set; the body below neither reads nor writes it.
\* cands is the candidate list of the tier the pick came from, asked the
\* sources whose search was called, in the order of the calls.
fetch_asset_url(query, primary, fallback, image_fallback, po, fo, io) ==
  LET p  == CaughtSearch(po)
      f  == CaughtSearch(fo)
      im == CaughtSearch(io)
      ap == IF primary THEN <<"primary">> ELSE <<>>
      af == ap \o (IF fallback THEN <<"fallback">> ELSE <<>>)
      ai == af \o (IF image_fallback THEN <<"image">> ELSE <<>>)
      hit(r, type, a) == [url |-> r.urls[1], asset_type |-> type,
                          cands |-> Range(r.urls), raised |-> FALSE,
                          asked |-> a]
      boom(a) == [url |-> None, asset_type |-> "none", cands |-> {},
                  raised |-> TRUE, asked |-> a]
  IN  IF primary /\ p.raised THEN boom(ap)
      ELSE IF primary /\ p.urls # <<>> THEN hit(p, "video", ap)
      ELSE IF fallback /\ f.raised THEN boom(af)
      ELSE IF fallback /\ f.urls # <<>> THEN hit(f, "video", af)
      ELSE IF image_fallback /\ im.raised THEN boom(ai)
      ELSE IF image_fallback /\ im.urls # <<>> THEN hit(im, "image", ai)
      ELSE [url |-> None, asset_type |-> "none", cands |-> {},
            raised |-> FALSE, asked |-> ai]

\* Every result one call of fetch_asset_url can have, per availability of the
\* three sources (the result does not depend on the words of the query).
FetchTable ==
  [p \in BOOLEAN, f \in BOOLEAN, im \in BOOLEAN |->
     {fetch_asset_url(<<>>, p, f, im, po, fo, io) :
        po \in SearchOutcomes(VideoUrls), fo \in SearchOutcomes(VideoUrls),
        io \in SearchOutcomes(ImageUrls)}]

FetchResults(query, primary, fallback, image_fallback) ==
  FetchTable[primary, fallback, image_fallback]


(* --------------------------- Clip Materializer ------------------------ *)

\* A clip: kind of visual, clip.duration, the offset into its source at which
\* it starts, the length of visual material from the source's start (content),
\* how it was extended, and its overlays (label: the bracketed query text of a
\* placeholder; sub: the subtitle).
MkClip(kind, duration, offset, content, ext) ==
  [kind |-> kind, duration |-> duration, offset |-> offset,
   content |-> content, ext |-> ext, label |-> FALSE, sub |-> FALSE]

\* The value of clip before the first segment is built.
NoClip == MkClip("none", 0, 0, 0, "none")

\* moviepy's freeze(clip, t, freeze_duration): the part before t, the frame at
\* t held for freeze_duration, the part after t.
FreezeDuration(d, t, freeze_duration) == t + freeze_duration + (d - t)

\* Faulty variant of LoopsNeeded: the "+ 1" forgotten.
LoopsNeededFloor(d, target) == target \div d

\* loops_needed = int(target_duration / clip.duration) + 1
LoopsNeeded(d, target) == (target \div d) + 1

\* extend_clip_to_duration(clip, target_duration) for a clip of duration d.
\* freeze_ok, loop_ok: whether moviepy's freeze / concatenate succeed.
\* Returns the duration and the content of the returned clip.
extend_clip_to_duration(d, target, freeze_ok, loop_ok) ==
  IF d >= target
  THEN [duration |-> d, content |-> d, ext |-> "none"]
  ELSE IF d < FreezeBelow /\ freeze_ok
  THEN LET t == FreezeDuration(d, d - FreezeBack, target)
       IN  [duration |-> t, content |-> t, ext |-> "freeze"]
  ELSE IF loop_ok /\ d > 0
  THEN \* concatenate_videoclips([clip] * loops_needed).subclip(0, target);
       \* for d = 0 the division raises inside the try and the clip is
       \* returned as it was.
       [duration |-> target, content |-> LoopsNeeded(d, target) * d,
        ext |-> "loop"]
  ELSE [duration |-> d, content |-> d, ext |-> "failed"]

\* build_video, "Cut video to segment duration": base is the (extended) source,
\* start_t the random offset drawn if the source is longer than the segment
\* by more than the tolerance.
CutToSegment(base, seg_dur, start_t) ==
  IF base.duration <= seg_dur + CutTolerance
  THEN MkClip("video", base.duration, 0, base.content, base.ext)
  ELSE MkClip("video", seg_dur, start_t, base.content, base.ext)

\* Faulty variant of MaxStart: the segment's duration is not taken off.
MaxStartWhole(base, seg_dur) == Max(0, base.duration)

\* max_start = max(0, base.duration - seg.dur)
MaxStart(base, seg_dur) == Max(0, base.duration - seg_dur)

\* Faulty variant of create_fallback_clip: the solid colour clip is returned
\* without .set_duration(duration).
create_fallback_clip_unset(duration, text, gradient_ok) ==
  IF gradient_ok
  THEN [MkClip("gradient", duration, 0, duration, "none")
          EXCEPT !.label = (text # <<>>)]
  ELSE MkClip("solid", 0, 0, 0, "none")

\* create_fallback_clip(w, h, duration, text): the gradient, with the bracketed
\* text over it when text is not empty, or the solid colour when building the
\* gradient raised.
create_fallback_clip(duration, text, gradient_ok) ==
  IF gradient_ok
  THEN [MkClip("gradient", duration, 0, duration, "none")
          EXCEPT !.label = (text # <<>>)]
  ELSE MkClip("solid", duration, 0, duration, "none")

\* Faulty variant of OnAssetFailure: no handler, the exception leaves
\* build_video.
OnAssetFailureRaised(seg_dur, query, gradient_ok, reason) ==
  [raised |-> TRUE, why |-> reason, clip |-> NoClip]

\* except Exception as e: ... clip = create_fallback_clip(w, h, seg.dur, query)
\* The handler of the image and of the video branch: the failure is swallowed
\* and the segment gets the placeholder.
OnAssetFailure(seg_dur, query, gradient_ok, reason) ==
  [raised |-> FALSE, why |-> reason,
   clip |-> create_fallback_clip(seg_dur, query, gradient_ok)]

\* if not validate_video_clip(path): clip = create_fallback_clip(...)
OnInvalidVideo(seg_dur, query, gradient_ok) ==
  [raised |-> FALSE, why |-> "invalid",
   clip |-> create_fallback_clip(seg_dur, query, gradient_ok)]

\* download_assets.py: a file smaller than this is taken to be corrupted.
MIN_VALID_FILE_SIZE == 10000

\* A file of the temporary directory: its size in bytes, whether moviepy
\* can decode it, and the duration moviepy reports for it.
NoFile == [exists |-> FALSE, size |-> 0, decodable |-> FALSE, d |-> 0]

\* validate_asset(path)
validate_asset(f) == f.exists /\ f.size >= MIN_VALID_FILE_SIZE

\* download_asset(url, tmpdir): cached is the file already at the asset's
\* path, fetched the file the request writes if it succeeds, partial what a
\* failing request leaves at the path: nothing if it fails before
\* open(fn, "wb") (raise_for_status), the bytes written so far if the
\* transfer breaks in iter_content; the except clause logs and re-raises
\* without removing them.  An invalid cached file is removed before the
\* request, an invalid downloaded file before the ValueError.  Returns the
\* file at the path afterwards, whether a request was made and whether the
\* function raised.
download_asset(cached, request_ok, fetched, partial) ==
  IF cached.exists /\ validate_asset(cached)
  THEN [raised |-> FALSE, requested |-> FALSE, file |-> cached]
  ELSE IF ~request_ok
  THEN [raised |-> TRUE, requested |-> TRUE, file |-> partial]
  ELSE IF ~validate_asset(fetched)
  THEN [raised |-> TRUE, requested |-> TRUE, file |-> NoFile]
  ELSE [raised |-> FALSE, requested |-> TRUE, file |-> fetched]

\* Faulty variant of validate_video_clip: the duration is not looked at.
validate_video_clip_decodable(f) == f.decodable

\* validate_video_clip(path): False if opening raises or duration <= 0.
validate_video_clip(f) == f.decodable /\ ~(f.d <= 0)

\* Durations of the video files the sources hand out.
SrcDurs == {150, 300, 1000, 6000}

\* What the collaborators of one clip build can do: the download, the
\* validation, the decoder, the source's duration, moviepy's freeze and
\* concatenate, the random draw, the resize.
BuildEnvs ==
  [download_ok : BOOLEAN, valid : BOOLEAN, open_ok : BOOLEAN, d : SrcDurs,
   freeze_ok : BOOLEAN, loop_ok : BOOLEAN, pick : {0, 1, 2},
   resize_ok : BOOLEAN]

\* The try body of the image branch: download_asset, ImageClip(...)
\* .set_duration(seg.dur), ensure_resolution.  failed names what raised.
ImageTry(seg_dur, e) ==
  IF ~e.download_ok THEN [failed |-> "download", clip |-> NoClip]
  ELSE IF ~e.open_ok THEN [failed |-> "decode", clip |-> NoClip]
  ELSE IF ~e.resize_ok THEN [failed |-> "resize", clip |-> NoClip]
  ELSE [failed |-> "no", clip |-> MkClip("image", seg_dur, 0, seg_dur, "none")]

\* start_t = random.uniform(0, max_start): pick 0, 1, 2 is the low end, the
\* middle, the high end of the interval.
RandomStart(max_start, pick) ==
  IF pick = 0 THEN 0 ELSE IF pick = 1 THEN max_start \div 2 ELSE max_start

\* The try body of the video branch: download_asset, validate_video_clip,
\* VideoFileClip, the extension if the source is shorter than the segment,
\* the cut, ensure_resolution.  failed names what raised ("invalid": nothing
\* raised, the validation said no).
VideoTry(seg_dur, e) ==
  IF ~e.download_ok THEN [failed |-> "download", clip |-> NoClip]
  ELSE IF ~e.valid THEN [failed |-> "invalid", clip |-> NoClip]
  ELSE IF ~e.open_ok THEN [failed |-> "decode", clip |-> NoClip]
  ELSE LET base == IF e.d < seg_dur
                   THEN extend_clip_to_duration(e.d, seg_dur, e.freeze_ok, e.loop_ok)
                   ELSE [duration |-> e.d, content |-> e.d, ext |-> "none"]
           st   == RandomStart(MaxStart(base, seg_dur), e.pick)
       IN  IF ~e.resize_ok
           THEN [failed |-> "resize", clip |-> NoClip]
           ELSE [failed |-> "no", clip |-> CutToSegment(base, seg_dur, st)]

\* Raw lengths (end - start) of the segments of the model; 50 is below the
\* 0.1 s floor of Segment.dur.
SegLens == {50, 2000}

\* The durations a segment of the model can have.
SegDurValues == {Max(MinDur, l) : l \in SegLens}

\* Every outcome of the two try bodies, per segment duration.
ImageTries == [sd \in SegDurValues |-> {ImageTry(sd, e) : e \in BuildEnvs}]

VideoTries == [sd \in SegDurValues |-> {VideoTry(sd, e) : e \in BuildEnvs}]

\* build_video, the image branch: the try body, then the handler.
ImageBranch(seg_dur, query, t, gradient_ok) ==
  IF t.failed = "no"
  THEN [raised |-> FALSE, why |-> "ok", clip |-> t.clip]
  ELSE OnAssetFailure(seg_dur, query, gradient_ok, t.failed)

\* build_video, the video branch: the try body, then the invalid-file
\* fallback or the handler.
VideoBranch(seg_dur, query, t, gradient_ok) ==
  IF t.failed = "no"
  THEN [raised |-> FALSE, why |-> "ok", clip |-> t.clip]
  ELSE IF t.failed = "invalid"
  THEN OnInvalidVideo(seg_dur, query, gradient_ok)
  ELSE OnAssetFailure(seg_dur, query, gradient_ok, t.failed)

\* make_subtitle_clip(seg.text, w, h) is None iff the text is empty.
HasSubtitle(text) == text # <<>>

\* CompositeVideoClip([clip, sclip.set_duration(seg.dur)]): it lasts as long as
\* its longest member.
WithSubtitle(clip, seg_dur) ==
  [clip EXCEPT !.duration = Max(clip.duration, seg_dur), !.sub = TRUE]

\* Faulty variant of SetDuration: the clip appended as it is.
SetDurationKept(clip, t) == clip

\* clip.set_duration(seg.dur)
SetDuration(clip, t) == [clip EXCEPT !.duration = t]


(* --------------------------- Subtitle Renderer ------------------------ *)

\* make_subtitle_clip: the least text width, the least box side, the
\* default padding, in pixels.
MinTextWidth == 10

MinBoxSide == 2

DefaultPad == 22

\* max_text_width = max(10, int(w * 0.9))
max_text_width(w) == Max(MinTextWidth, (9 * w) \div 10)

\* line_h = max(2, ascent + descent)
line_h(metric) == Max(2, metric)

\* gap = max(1, int(line_h * 0.25))
gap(metric) == Max(1, line_h(metric) \div 4)

\* text_h = max(0, len(lines) * line_h + max(0, len(lines) - 1) * gap)
text_h(n, metric) == Max(0, n * line_h(metric) + Max(0, n - 1) * gap(metric))

\* Faulty variant of box_w: the width is not held to max_text_width.
box_w_unclamped(w, text_w, pad) == Max(MinBoxSide, text_w + 2 * pad)

\* box_w = max(2, min(max_text_width, text_w + 2 * pad))
box_w(w, text_w, pad) ==
  Max(MinBoxSide, Min(max_text_width(w), text_w + 2 * pad))

\* box_h = max(2, text_h + 2 * pad)
box_h(n, metric, pad) == Max(MinBoxSide, text_h(n, metric) + 2 * pad)

\* make_subtitle_clip(text, w, h, fontsize, pad) for a text that is not
\* blank: n lines after wrapping, the widest measuring text_w pixels, the
\* font's ascent + descent being metric.  The size of the box and the
\* height it is placed at.
make_subtitle_clip(w, h, n, text_w, metric, pad) ==
  [box_w |-> box_w(w, text_w, pad),
   box_h |-> box_h(n, metric, pad),
   y |-> (82 * h) \div 100]


(* --------------------------- Timeline Assembler ----------------------- *)

\* Faulty variant of SafeOverlap4f: the previous clip's quarter left out of
\* the minimum.
SafeOverlap4fNextOnly(f, a_dur, nxt_dur) ==
  Min(Min(FadeFrames * 1000 * OverlapDivisor, MaxOverlap * OverlapDivisor * f),
      nxt_dur * f)

\* Faulty variant of SafeOverlap4f: the two quarter-of-a-clip limits left
\* out of the minimum.
SafeOverlap4fNoQuarter(f, a_dur, nxt_dur) ==
  Min(FadeFrames * 1000 * OverlapDivisor, MaxOverlap * OverlapDivisor * f)

\* safe_overlap = min(6.0 / fps, 0.25, a.duration * 0.25, nxt.duration * 0.25),
\* as the integer safe_overlap * 4 * fps in milliseconds (exact: no rounding).
SafeOverlap4f(f, a_dur, nxt_dur) ==
  Min(Min(FadeFrames * 1000 * OverlapDivisor, MaxOverlap * OverlapDivisor * f),
      Min(a_dur * f, nxt_dur * f))

\* Faulty variant of FadeApplies: an overlap of exactly one frame is taken
\* for a hard cut.
FadeAppliesStrict(f, a_dur, nxt_dur) ==
  SafeOverlap4f(f, a_dur, nxt_dur) > 1000 * OverlapDivisor

\* not (safe_overlap < 1.0 / fps): the boundary gets a fade.
FadeApplies(f, a_dur, nxt_dur) ==
  ~(SafeOverlap4f(f, a_dur, nxt_dur) < 1000 * OverlapDivisor)

\* The overlap used at the boundary between clips k and k+1 (0: hard cut).
BoundaryOverlap4f(clips, f, k) ==
  IF FadeApplies(f, clips[k].duration, clips[k + 1].duration)
  THEN SafeOverlap4f(f, clips[k].duration, clips[k + 1].duration)
  ELSE 0

\* The seq list of build_video: every clip with the fades put on its two edges
\* (crossfadein / crossfadeout leave the duration as it is).
FadedSeq(clips, f, trans) ==
  [k \in DOMAIN clips |->
     [idx |-> clips[k].idx, duration |-> clips[k].duration,
      fadein |-> IF trans /\ Len(clips) > 1 /\ k > 1
                 THEN BoundaryOverlap4f(clips, f, k - 1) ELSE 0,
      fadeout |-> IF trans /\ Len(clips) > 1 /\ k < Len(clips)
                  THEN BoundaryOverlap4f(clips, f, k) ELSE 0]]

RECURSIVE SumDur(_)
SumDur(clips) ==
  IF clips = <<>> THEN 0 ELSE clips[1].duration + SumDur(Tail(clips))

\* The overlaps of all boundaries of seq together (each boundary's overlap is
\* the fade-out of the clip before it), in units of 1/(4 fps) ms.
RECURSIVE SumFadeOut(_)
SumFadeOut(seq) ==
  IF seq = <<>> THEN 0 ELSE seq[1].fadeout + SumFadeOut(Tail(seq))

\* Where concatenate_videoclips puts clip k: at the end of clip k - 1.
TimelineStart(clips, k) == SumDur(SubSeq(clips, 1, k - 1))

\* concatenate_videoclips(seq, method="compose"): the clips one after the
\* other, no padding between them.  from is the offset of the concatenated
\* timeline at which the result starts; tail and pad record what the
\* reconciliation then does to the end of the timeline.
concatenate_videoclips(seq) ==
  [duration |-> SumDur(seq), clips |-> seq, from |-> 0, tail |-> "none",
   pad |-> 0]

\* Faulty variant of Reconciled: the elif branch left out, a short timeline
\* is not padded.
ReconciledTrimOnly(v, narration_dur) ==
  IF v.duration > narration_dur
  THEN [duration |-> narration_dur, from |-> 0, tail |-> "trim", pad |-> 0]
  ELSE [duration |-> v.duration, from |-> 0, tail |-> "none", pad |-> 0]

\* Faulty variant of Reconciled: a long timeline keeps its last
\* narration_dur milliseconds, subclip(duration - total_dur, duration).
ReconciledFromEnd(v, narration_dur) ==
  IF v.duration > narration_dur
  THEN [duration |-> narration_dur, from |-> v.duration - narration_dur,
        tail |-> "trim", pad |-> 0]
  ELSE IF v.duration < narration_dur
  THEN [duration |-> v.duration + (narration_dur - v.duration), from |-> 0,
        tail |-> "pad", pad |-> narration_dur - v.duration]
  ELSE [duration |-> v.duration, from |-> 0, tail |-> "none", pad |-> 0]

\* "Ensure video duration matches audio": subclip(0, total_dur) of a long
\* timeline, a black ColorClip of the missing duration after a short one,
\* nothing otherwise.
Reconciled(v, narration_dur) ==
  IF v.duration > narration_dur
  THEN [duration |-> narration_dur, from |-> 0, tail |-> "trim", pad |-> 0]
  ELSE IF v.duration < narration_dur
  THEN [duration |-> v.duration + (narration_dur - v.duration), from |-> 0,
        tail |-> "pad", pad |-> narration_dur - v.duration]
  ELSE [duration |-> v.duration, from |-> 0, tail |-> "none", pad |-> 0]


(* ------------------------------ Audio Mixer ---------------------------- *)

\* Gains in thousandths: 1000 is the track as it is.
UnitGain == 1000

\* download_background_music(tmpdir, total_dur): the path of a track, or
\* None when no track could be acquired; it does not raise.
download_background_music(acquire_ok) == IF acquire_ok THEN "bg" ELSE None

\* No background track in the mix.
NoBg == [copies |-> 0, looped |-> 0, duration |-> 0, gain |-> 0]

\* Faulty variant of BgLoopsNeeded: the extra copy is forgotten.
BgLoopsNeededFloor(d, target) == target \div d

\* loops_needed = int(total_dur / bg_audio.duration) + 1
BgLoopsNeeded(d, target) == (target \div d) + 1

\* The try body of the mix for a track of duration d: AudioFileClip, the
\* loop or the trim, volumex, CompositeAudioClip.  load_ok, loop_ok, fx_ok:
\* whether moviepy's loader, concatenate_audioclips and volumex/composite
\* succeed.  A track of duration 0 makes the division raise.  failed names
\* what raised; bg is the track that enters the mix: how many copies of the
\* file, their length together, the length after subclip(0, total_dur), the
\* gain.
MixTry(d, total, volume, load_ok, loop_ok, fx_ok) ==
  IF ~load_ok THEN [failed |-> "load", bg |-> NoBg]
  ELSE IF d < total /\ (d = 0 \/ ~loop_ok) THEN [failed |-> "loop", bg |-> NoBg]
  ELSE IF ~fx_ok THEN [failed |-> "mix", bg |-> NoBg]
  ELSE IF d < total
  THEN [failed |-> "no",
        bg |-> [copies |-> BgLoopsNeeded(d, total),
                looped |-> BgLoopsNeeded(d, total) * d,
                duration |-> Min(total, BgLoopsNeeded(d, total) * d),
                gain |-> volume]]
  ELSE [failed |-> "no",
        bg |-> [copies |-> 1, looped |-> d, duration |-> total,
                gain |-> volume]]

\* final = video.set_audio(narration)
NarrationOnly(reason) ==
  [raised |-> FALSE, audio |-> "narration", narration_gain |-> UnitGain,
   bg |-> NoBg, why |-> reason]

\* Faulty variant of OnMixFailure: no handler, the exception leaves
\* build_video.
OnMixFailureRaised(reason) == [NarrationOnly(reason) EXCEPT !.raised = TRUE]

\* except Exception: "Failed to mix background music ..., using narration
\* only"
OnMixFailure(reason) == NarrationOnly(reason)

\* Lines 595-635: the audio of final.  e: the background_music flag, the
\* music volume, whether a track is acquired, its duration, and what
\* moviepy does.
mix_audio(total, e) ==
  IF ~e.background_music THEN NarrationOnly("disabled")
  ELSE IF download_background_music(e.acquire_ok) = None
  THEN NarrationOnly("no_track")
  ELSE LET t == MixTry(e.d, total, e.volume, e.load_ok, e.loop_ok, e.fx_ok)
       IN  IF t.failed = "no"
           THEN [raised |-> FALSE, audio |-> "mixed",
                 narration_gain |-> UnitGain, bg |-> t.bg, why |-> "ok"]
           ELSE OnMixFailure(t.failed)

\* Durations of the background tracks, 0 for a track moviepy reports empty.
BgDurs == {0, 700, 1500, 2000, 3000}

\* music_volume in thousandths: the default 0.1, and 0.5.
MusicVolumes == {100, 500}

MixEnvs ==
  [background_music : BOOLEAN, volume : MusicVolumes, acquire_ok : BOOLEAN,
   d : BgDurs, load_ok : BOOLEAN, loop_ok : BOOLEAN, fx_ok : BOOLEAN]


(* ------------------------------ build_video --------------------------- *)

VARIABLES
  segments,        \* the segment list handed to build_video
  subs,            \* the subs flag
  custom_queries,  \* the custom-query mapping, str(idx) -> query
  keys,            \* which API keys the configuration holds
  style,           \* the style argument
  title,           \* the title argument (<<>>: none)
  fps,             \* the fps argument (0 until the concatenation reads it)
  transitions,     \* the transitions flag (read by the concatenation)
  total_dur,       \* narration.duration (0 until the reconciliation reads it)
  pc,              \* where the program stands
  i,               \* position of the segment being processed (1-based)
  query,           \* build_video's query
  url,             \* build_video's url
  asset_type,      \* build_video's asset_type
  clip,            \* build_video's clip
  built_clips,     \* build_video's built_clips
  used_urls,       \* build_video's used_urls
  video,           \* build_video's video
  final,           \* the audio of build_video's final ("none" until set)
  calls,           \* history: the resolver calls made for the current segment
  cands,           \* history: the candidates behind the last resolver result
  returned,        \* history: the locators resolved for the earlier segments
  why,             \* history: why the last clip built is what it is
  abortedAt,       \* history: the step whose exception left build_video
  arg,             \* the arguments of a function applied on its own
  res              \* its result

args == <<segments, subs, custom_queries, keys, style, title>>

tailargs == <<fps, transitions, total_dur>>

locals ==
  <<i, query, url, asset_type, clip, built_clips, used_urls, video, final>>

hist == <<calls, cands, returned, why, abortedAt>>

vars == <<args, tailargs, pc, locals, hist, arg, res>>

\* Segment texts: none, and one with a stopword and a keyword.
Texts == {<<>>, <<"the", "ocean">>}

RECURSIVE StartOf(_, _)
StartOf(lens, k) == IF k = 1 THEN 0 ELSE StartOf(lens, k - 1) + lens[k - 1]

\* Segments back to back from 0, numbered from 0 as the caption parsers do.
MkSegments(lens, texts) ==
  [k \in DOMAIN lens |->
     [idx |-> k - 1, start |-> StartOf(lens, k),
      end |-> StartOf(lens, k) + lens[k], text |-> texts[k]]]

SegmentLists ==
  UNION {{MkSegments(lens, texts) : lens \in [1..n -> SegLens],
                                    texts \in [1..n -> Texts]} : n \in 1..MaxSegs}

\* str(seg.idx)
IdxStr(n) == <<"0", "1", "2", "3", "4", "5">>[n + 1]

\* The custom-query files of the model: none, and one with a query for
\* segment 0.
CustomQueryMaps == {[k \in {} |-> <<>>], [k \in {"0"} |-> <<"the", "city">>]}

Styles == {"general", "tech"}

Titles == {<<>>}

\* At 4 fps the 0.25 s cap is exactly one frame.
FpsValues == {1, 4, 24, 30}

NarrationDurs == {2000, 2100}

NoVideo ==
  [duration |-> 0, clips |-> <<>>, from |-> 0, tail |-> "none", pad |-> 0]

\* The locals and the histories before the first segment.
Blank ==
  /\ fps = 0
  /\ transitions = FALSE
  /\ total_dur = 0
  /\ i = 1
  /\ query = <<>>
  /\ url = None
  /\ asset_type = "none"
  /\ clip = NoClip
  /\ built_clips = <<>>
  /\ used_urls = {}
  /\ video = NoVideo
  /\ final = "none"
  /\ calls = <<>>
  /\ cands = {}
  /\ returned = {}
  /\ why = "none"
  /\ abortedAt = "none"

\* build_video is entered, the narration is open and the custom queries
\* are loaded (StartBuild is that step when main runs it): the arguments the
\* loop reads are fixed; fps, transitions and the narration's duration are
\* first read after the loop and are drawn there.
Init ==
  /\ segments \in SegmentLists
  /\ subs \in BOOLEAN
  /\ custom_queries \in CustomQueryMaps
  /\ keys \in KeyConfigs
  /\ style \in Styles
  /\ title \in Titles
  /\ pc = "fetch"
  /\ Blank
  /\ arg = <<>>
  /\ res = <<>>

\* Faulty variant of Seg: the list is walked from its end.
SegReversed == segments[Len(segments) + 1 - i]

\* for seg in segments: the segment of the current turn of the loop.
Seg == segments[i]

primary == make_provider(PRIMARY_PROVIDER, keys)

fallback == make_provider(FALLBACK_PROVIDER, keys)

image_fallback == ImageFallbackAvailable(keys)

\* Faulty variant of QueryChoices: the custom-query mapping is not consulted.
QueryChoicesGenerated(seg) ==
  generate_query_for_segment(seg, style, TRUE, title)

\* "Get query (custom or generated)"
QueryChoices(seg) ==
  IF IdxStr(seg.idx) \in DOMAIN custom_queries
  THEN {custom_queries[IdxStr(seg.idx)]}
  ELSE generate_query_for_segment(seg, style, TRUE, title)

\* Faulty variant of NeedsRetry: the retry is never made.
NeverRetry(u) == FALSE

\* if not url: the simplified retry is made.
NeedsRetry(u) == u = None

\* An exception leaves build_video.
Abort(step) ==
  /\ pc' = "aborted"
  /\ abortedAt' = step
  /\ UNCHANGED <<args, tailargs, locals, calls, cands, returned, why, arg, res>>

\* Lines 485-498: the query of the segment and the first resolver call.
FetchAsset ==
  /\ pc = "fetch"
  /\ \E q \in QueryChoices(Seg) :
       \E r \in FetchResults(q, primary, fallback, image_fallback) :
         IF r.raised
         THEN Abort("fetch")
         ELSE /\ query' = q
              /\ url' = r.url
              /\ asset_type' = r.asset_type
              /\ cands' = r.cands
              /\ calls' = <<[query |-> q, url |-> r.url]>>
              /\ clip' = NoClip
              /\ why' = "none"
              /\ pc' = IF NeedsRetry(r.url) THEN "retry" ELSE "build"
              /\ UNCHANGED <<args, tailargs, i, built_clips, used_urls, video, final,
                             returned, abortedAt, arg, res>>

\* Lines 500-505: "If no results, try simplified query".
RetrySimplified ==
  /\ pc = "retry"
  /\ \E sq \in simplify_query(query, style, title) :
       \E r \in FetchResults(sq, primary, fallback, image_fallback) :
         IF r.raised
         THEN Abort("fetch")
         ELSE /\ url' = r.url
              /\ asset_type' = r.asset_type
              /\ cands' = r.cands
              /\ calls' = Append(calls, [query |-> sq, url |-> r.url])
              /\ pc' = "build"
              /\ UNCHANGED <<args, tailargs, i, query, clip, built_clips,
                             used_urls, video, final, returned, why, abortedAt,
                             arg, res>>

\* What every branch of "Build clip based on asset type" does once it has
\* its clip: the resolver's result is consumed.
Built(r) ==
  IF r.raised
  THEN Abort("build")
  ELSE /\ clip' = r.clip
       /\ why' = r.why
       /\ returned' = IF url = None THEN returned ELSE returned \cup {url}
       /\ query' = <<>>
       /\ url' = None
       /\ asset_type' = "none"
       /\ cands' = {}
       /\ calls' = <<>>
       /\ pc' = "subs"
       /\ UNCHANGED <<args, tailargs, i, built_clips, used_urls, video, final,
                      abortedAt, arg, res>>

\* Lines 508-511: no asset, the placeholder.
BuildFallback ==
  /\ pc = "build"
  /\ (url = None \/ asset_type = "none")
  /\ \E g \in BOOLEAN :
       Built([raised |-> FALSE, why |-> "no_asset",
              clip |-> create_fallback_clip(Dur(Seg), query, g)])

\* Lines 512-522: an image asset.
BuildImage ==
  /\ pc = "build"
  /\ ~(url = None \/ asset_type = "none")
  /\ asset_type = "image"
  /\ \E r \in {ImageBranch(Dur(Seg), query, t, g) :
                   t \in ImageTries[Dur(Seg)], g \in BOOLEAN} :
       Built(r)

\* Lines 523-554: a video asset.
BuildVideo ==
  /\ pc = "build"
  /\ ~(url = None \/ asset_type = "none")
  /\ asset_type # "image"
  /\ \E r \in {VideoBranch(Dur(Seg), query, t, g) :
                   t \in VideoTries[Dur(Seg)], g \in BOOLEAN} :
       Built(r)

\* Lines 556-564: the subtitle overlay, the pin to seg.dur, the append.
AppendClip ==
  /\ pc = "subs"
  /\ LET c == IF subs /\ HasSubtitle(Seg.text)
              THEN WithSubtitle(clip, Dur(Seg)) ELSE clip
     IN  /\ clip' = c
         /\ built_clips' = Append(built_clips,
                             [idx |-> Seg.idx,
                              duration |-> SetDuration(c, Dur(Seg)).duration])
  /\ i' = i + 1
  /\ pc' = IF i = Len(segments) THEN "concat" ELSE "fetch"
  /\ UNCHANGED <<args, tailargs, query, url, asset_type, used_urls, video, final,
                 hist, arg, res>>

\* Lines 566-581: the concatenation, with the fades if transitions is set.
\* The loop is over: its clip variable is dead, and it and the histories of
\* the loop are dropped.
Concatenate ==
  /\ pc = "concat"
  /\ \E f \in FpsValues, t \in BOOLEAN :
       /\ fps' = f
       /\ transitions' = t
       /\ video' = concatenate_videoclips(FadedSeq(built_clips, f, t))
  /\ pc' = "reconcile"
  /\ clip' = NoClip
  /\ returned' = {}
  /\ why' = "none"
  /\ UNCHANGED <<args, total_dur, i, query, url, asset_type, built_clips,
                 used_urls, final, calls, cands, abortedAt, arg, res>>

\* Lines 583-590: the timeline is trimmed or padded to the narration.
Reconcile ==
  /\ pc = "reconcile"
  /\ \E n \in NarrationDurs :
       /\ total_dur' = n
       /\ video' = [video EXCEPT !.duration = Reconciled(video, n).duration,
                                 !.from = Reconciled(video, n).from,
                                 !.tail = Reconciled(video, n).tail,
                                 !.pad = Reconciled(video, n).pad]
  /\ pc' = "export"
  /\ UNCHANGED <<args, fps, transitions, i, query, url, asset_type, clip,
                 built_clips, used_urls, final, hist, arg, res>>

\* The audio environments of the build: music on or off, a track acquired
\* or not, shorter or longer than the narration, the mix raising or not.
BuildMixEnvs ==
  {e \in MixEnvs : /\ e.volume = 100
                   /\ e.d \in {1500, 3000}
                   /\ e.load_ok /\ e.loop_ok}

\* What the mix can come to for a narration of duration total: whether it
\* raised and which audio final got.
MixOutcomes ==
  [total \in NarrationDurs |->
     {[raised |-> mix_audio(total, e).raised,
       audio |-> mix_audio(total, e).audio] : e \in BuildMixEnvs}]

\* Lines 592-640: the audio is set and the file written; write_videofile may
\* raise.
Export ==
  /\ pc = "export"
  /\ \E m \in MixOutcomes[total_dur], ok \in BOOLEAN :
           IF m.raised THEN Abort("mix")
           ELSE IF ok
           THEN /\ pc' = "done"
                /\ final' = m.audio
                /\ UNCHANGED <<args, tailargs, i, query, url, asset_type, clip,
                               built_clips, used_urls, video, hist, arg, res>>
           ELSE Abort("export")

Next ==
  \/ FetchAsset
  \/ RetrySimplified
  \/ BuildFallback
  \/ BuildImage
  \/ BuildVideo
  \/ AppendClip
  \/ Concatenate
  \/ Reconcile
  \/ Export

Spec == Init /\ [][Next]_vars


(* ------------------- fetch_asset_url applied on its own ---------------- *)

\* build_video's arguments when a function is applied outside a build.
NoArgs ==
  /\ segments = <<>>
  /\ subs = FALSE
  /\ custom_queries = [k \in {} |-> <<>>]
  /\ keys = [pexels |-> FALSE, pixabay |-> FALSE]
  /\ style = "general"
  /\ title = <<>>

\* A query, which tiers exist, and what each tier's search does if called.
ResolverArgs ==
  [query : {<<"ocean">>}, primary : BOOLEAN, fallback : BOOLEAN,
   image_fallback : BOOLEAN, po : SearchOutcomes(VideoUrls),
   fo : SearchOutcomes(VideoUrls), io : SearchOutcomes(ImageUrls)]

InitResolver ==
  /\ NoArgs
  /\ Blank
  /\ pc = "resolve"
  /\ arg \in ResolverArgs
  /\ res = <<>>

Resolve ==
  /\ pc = "resolve"
  /\ res' = fetch_asset_url(arg.query, arg.primary, arg.fallback,
                            arg.image_fallback, arg.po, arg.fo, arg.io)
  /\ pc' = "resolved"
  /\ UNCHANGED <<args, tailargs, locals, hist, arg>>

NextResolver == Resolve

SpecResolver == InitResolver /\ [][NextResolver]_vars


(* -------------------- the video branch applied on its own -------------- *)

\* Source durations from 50 ms up in steps of 50 ms.
MaxSrcSteps == 12

SrcGrid ==
  {50 * k : k \in 1..MaxSrcSteps} \cup {2000, 2500, 5200, 5201, 6000, 20000}

TargetDurs == {100, 1000, 5000}

\* A segment duration and a video file that downloads, validates, opens and
\* resizes; freeze and concatenate may raise.
VideoArgs ==
  [seg_dur : TargetDurs,
   e : [download_ok : {TRUE}, valid : {TRUE}, open_ok : {TRUE}, d : SrcGrid,
        freeze_ok : BOOLEAN, loop_ok : BOOLEAN, pick : {0, 1, 2},
        resize_ok : {TRUE}]]

InitVideo ==
  /\ NoArgs
  /\ Blank
  /\ pc = "video"
  /\ arg \in VideoArgs
  /\ res = <<>>

\* Lines 523-554 for the file of arg.
MaterializeVideo ==
  /\ pc = "video"
  /\ res' = VideoBranch(arg.seg_dur, <<>>, VideoTry(arg.seg_dur, arg.e), TRUE).clip
  /\ pc' = "pin"
  /\ UNCHANGED <<args, tailargs, locals, hist, arg>>

\* Line 563: clip.set_duration(seg.dur)
PinClip ==
  /\ pc = "pin"
  /\ res' = SetDuration(res, arg.seg_dur)
  /\ pc' = "pinned"
  /\ UNCHANGED <<args, tailargs, locals, hist, arg>>

NextVideo == MaterializeVideo \/ PinClip

SpecVideo == InitVideo /\ [][NextVideo]_vars


(* --------------- the video branch applied to files on disk ------------- *)

FileSizes == {0, 9999, 10000, 500000}

FileDurs == {0, 300, 6000}

\* The files a request can write.
Files ==
  [exists : {TRUE}, size : FileSizes, decodable : BOOLEAN, d : FileDurs]

\* What can be at the asset's path before the call.
CachedFiles == {NoFile} \cup {f \in Files : f.d = 300}

\* What a failing request can leave at the asset's path: nothing, or the
\* part of the file written before the transfer broke.
PartialFiles == {NoFile} \cup {f \in Files : f.d = 300}

FileArgs ==
  [seg_dur : {100, 2000}, cached : CachedFiles, request_ok : BOOLEAN,
   fetched : Files, partial : PartialFiles, freeze_ok : BOOLEAN,
   loop_ok : BOOLEAN, gradient_ok : BOOLEAN]

\* The file the video branch gets to look at: the cached one if it is
\* there with at least 10000 bytes, else the one the request wrote.
FileAtPath(a) ==
  IF a.cached.exists /\ a.cached.size >= 10000 THEN a.cached
  ELSE IF a.request_ok THEN a.fetched
  ELSE NoFile

InitFile ==
  /\ NoArgs
  /\ Blank
  /\ pc = "file"
  /\ arg \in FileArgs
  /\ res = <<>>

\* The collaborators of the video branch as the files of arg make them
\* behave: the download raises or not, the validation answers for the file
\* at the path, the decoder reports that file's duration.
FileEnv(a) ==
  LET dl == download_asset(a.cached, a.request_ok, a.fetched, a.partial)
  IN  [download_ok |-> ~dl.raised,
       valid |-> validate_video_clip(dl.file),
       open_ok |-> dl.file.decodable,
       d |-> dl.file.d,
       freeze_ok |-> a.freeze_ok, loop_ok |-> a.loop_ok, pick |-> 2,
       resize_ok |-> TRUE]

\* Lines 523-554 and 563 for the files of arg.
MaterializeFile ==
  /\ pc = "file"
  /\ LET r == VideoBranch(arg.seg_dur, <<>>,
                          VideoTry(arg.seg_dur, FileEnv(arg)), arg.gradient_ok)
     IN  res' = [r EXCEPT !.clip = SetDuration(r.clip, arg.seg_dur)]
  /\ pc' = "filed"
  /\ UNCHANGED <<args, tailargs, locals, hist, arg>>

NextFile == MaterializeFile

SpecFile == InitFile /\ [][NextFile]_vars


(* ------------- download_asset called twice for one locator ------------- *)

DownloadArgs ==
  [cached : CachedFiles, request_ok : BOOLEAN, fetched : Files,
   partial : PartialFiles]

InitDownload ==
  /\ NoArgs
  /\ Blank
  /\ pc = "download"
  /\ arg \in DownloadArgs
  /\ res = <<>>

\* download_asset(url, tmpdir) with the files of arg.
DownloadFirst ==
  /\ pc = "download"
  /\ res' = <<download_asset(arg.cached, arg.request_ok, arg.fetched,
                             arg.partial)>>
  /\ pc' = "again"
  /\ UNCHANGED <<args, tailargs, locals, hist, arg>>

\* A later call for the same locator and directory: it finds at the path
\* what the first call left there.
DownloadAgain ==
  /\ pc = "again"
  /\ \E ok \in BOOLEAN, f \in Files, pf \in PartialFiles :
       res' = Append(res, download_asset(res[1].file, ok, f, pf))
  /\ pc' = "downloaded"
  /\ UNCHANGED <<args, tailargs, locals, hist, arg>>

NextDownload == DownloadFirst \/ DownloadAgain

SpecDownload == InitDownload /\ [][NextDownload]_vars


(* ---------------- the query functions applied on their own ------------- *)

\* 104 characters: the 100th is the first letter of the last word.
LongText ==
  <<"background", "background", "background", "background", "background",
    "background", "background", "background", "background", "ocean">>

\* 106 characters: the 100th ends the last word but one.
LongTextEven ==
  <<"background", "background", "background", "background", "background",
    "background", "background", "background", "cinematic", "ai", "ocean">>

\* No text, a stopword alone, a short text, and two texts over 100
\* characters.
QueryTexts == {<<>>, <<"the">>, <<"the", "ocean">>, LongText, LongTextEven}

\* "unknown" is a style THEME_MAP has no entry for.
QueryStyles == {"general", "tech", "unknown"}

\* No title, a title of stopwords, a title with three keywords.
QueryTitles == {<<>>, <<"the">>, <<"the", "ocean", "city", "forest">>}

QueryArgs ==
  [text : QueryTexts, style : QueryStyles, title : QueryTitles,
   use_full_text : BOOLEAN]

InitQuery ==
  /\ NoArgs
  /\ Blank
  /\ pc = "query"
  /\ arg \in QueryArgs
  /\ res = <<>>

Generate ==
  /\ pc = "query"
  /\ res' \in generate_query_for_segment(
               [idx |-> 0, start |-> 0, end |-> 1000, text |-> arg.text],
               arg.style, arg.use_full_text, arg.title)
  /\ pc' = "generated"
  /\ UNCHANGED <<args, tailargs, locals, hist, arg>>

Simplify ==
  /\ pc = "generated"
  /\ res' \in simplify_query(res, arg.style, arg.title)
  /\ pc' = "simplified"
  /\ UNCHANGED <<args, tailargs, locals, hist, arg>>

NextQuery == Generate \/ Simplify

SpecQuery == InitQuery /\ [][NextQuery]_vars


(* ------------------ the subtitle box computed on its own --------------- *)

FrameWidths == {1, 5, 10, 11, 12, 13, 100, 1920}

FrameHeights == {1, 1080}

\* A frame, a text wrapped to 1 to 3 lines, the widest line's measured
\* width, the font's ascent + descent, the padding.
SubtitleArgs ==
  [w : FrameWidths, h : FrameHeights, n : 1..3, text_w : {0, 5, 100, 3000},
   metric : {0, 1, 60}, pad : {0, DefaultPad}]

InitSubtitle ==
  /\ NoArgs
  /\ Blank
  /\ pc = "subtitle"
  /\ arg \in SubtitleArgs
  /\ res = <<>>

RenderSubtitle ==
  /\ pc = "subtitle"
  /\ res' = make_subtitle_clip(arg.w, arg.h, arg.n, arg.text_w, arg.metric,
                               arg.pad)
  /\ pc' = "rendered"
  /\ UNCHANGED <<args, tailargs, locals, hist, arg>>

NextSubtitle == RenderSubtitle

SpecSubtitle == InitSubtitle /\ [][NextSubtitle]_vars


(* ---------------------- the audio mix applied on its own --------------- *)

\* Narration durations for the mix.
MixTotals == {2000, 2100, 5000}

AudioArgs == [total : MixTotals, e : MixEnvs]

InitAudio ==
  /\ NoArgs
  /\ Blank
  /\ pc = "mix"
  /\ arg \in AudioArgs
  /\ res = <<>>

\* Lines 595-635 for the narration and the environment of arg.
MixAudio ==
  /\ pc = "mix"
  /\ res' = mix_audio(arg.total, arg.e)
  /\ IF res'.raised
     THEN /\ pc' = "aborted"
          /\ abortedAt' = "mix"
     ELSE /\ pc' = "write"
          /\ UNCHANGED abortedAt
  /\ UNCHANGED <<args, tailargs, locals, calls, cands, returned, why, arg>>

\* Lines 637-638: final.write_videofile(...), which may raise.
WriteVideoFile ==
  /\ pc = "write"
  /\ \/ /\ pc' = "done"
        /\ final' = res.audio
        /\ UNCHANGED <<args, tailargs, i, query, url, asset_type, clip,
                       built_clips, used_urls, video, hist, arg, res>>
     \/ Abort("export")

NextAudio == MixAudio \/ WriteVideoFile

SpecAudio == InitAudio /\ [][NextAudio]_vars


(* ------------------------- main.py: the pipeline ----------------------- *)

\* args.min_seg: 0 is "no clamping".
MinSegValues == {0, 60, 2000}

\* Where the segments come from: --autocaptions, an existing caption file,
\* or a caption path with no file behind it.
CaptionSources == {"whisper", "file", "missing"}

\* What the transcription or the caption file holds, and args.min_seg.
MainArgs == [captions : {<<>>} \cup SegmentLists, min_seg : MinSegValues]

\* main() is entered: nothing loaded yet.
InitMain ==
  /\ segments = <<>>
  /\ subs = FALSE
  /\ custom_queries \in CustomQueryMaps
  /\ keys \in KeyConfigs
  /\ style = "general"
  /\ title = <<>>
  /\ pc = "main"
  /\ Blank
  /\ arg \in MainArgs
  /\ res = <<>>

\* sys.exit(1), or an exception leaving main, before build_video is called.
Exit(reason) ==
  /\ pc' = "exited"
  /\ abortedAt' = reason
  /\ UNCHANGED <<args, tailargs, locals, calls, cands, returned, why, arg, res>>

\* Faulty variant of NoSegments: the check is gone.
NoSegmentsUnchecked(segs) == FALSE

\* if not segments:
NoSegments(segs) == segs = <<>>

\* main.py 129-158: the audio file is looked up, the captions are
\* transcribed or loaded (either may raise), an empty result ends the run.
LoadCaptions ==
  /\ pc = "main"
  /\ \E audio_exists \in BOOLEAN, captions_from \in CaptionSources :
       IF ~audio_exists THEN Exit("no_audio")
       ELSE IF captions_from = "missing" THEN Exit("no_captions")
       ELSE \/ Exit("load")
            \/ /\ NoSegments(arg.captions)
               /\ Exit("no_segments")
            \/ /\ ~NoSegments(arg.captions)
               /\ segments' = arg.captions
               /\ pc' = "clamp"
               /\ UNCHANGED <<subs, custom_queries, keys, style, title,
                              tailargs, locals, hist, arg, res>>

\* Faulty variant of clamp_segments: the new end is the minimum itself, the
\* segment's start is not added.
clamp_segments_end_only(segs, min_seg) ==
  IF min_seg > 0
  THEN [k \in DOMAIN segs |->
          IF segs[k].end - segs[k].start < min_seg
          THEN [segs[k] EXCEPT !.end = min_seg]
          ELSE segs[k]]
  ELSE segs

\* main.py 162-170: with a positive args.min_seg, a segment shorter than it
\* is replaced by Segment(s.idx, s.start, s.start + args.min_seg, s.text).
clamp_segments(segs, min_seg) ==
  IF min_seg > 0
  THEN [k \in DOMAIN segs |->
          IF segs[k].end - segs[k].start < min_seg
          THEN [segs[k] EXCEPT !.end = segs[k].start + min_seg]
          ELSE segs[k]]
  ELSE segs

ClampSegments ==
  /\ pc = "clamp"
  /\ segments' = clamp_segments(segments, arg.min_seg)
  /\ pc' = "start"
  /\ UNCHANGED <<subs, custom_queries, keys, style, title,
                 tailargs, locals, hist, arg, res>>

\* main.py 188-202 and build_video 445-484: build_video is called; opening
\* the narration (AudioFileClip) or parsing the custom-query file
\* (json.load) may raise, nothing catches either.
StartBuild ==
  /\ pc = "start"
  /\ \/ Abort("narration")
     \/ /\ custom_queries # [k \in {} |-> <<>>]
        /\ Abort("custom_queries")
     \/ /\ pc' = "fetch"
        /\ UNCHANGED <<args, tailargs, locals, hist, arg, res>>

NextMain == LoadCaptions \/ ClampSegments \/ StartBuild \/ Next

SpecMain == InitMain /\ [][NextMain]_vars


(* ------------------ the timeline of a given list of clips -------------- *)

MaxClips == 3

ClipDurs == {100, 400, 1000, 2000}

\* Silence before a segment: none, or half a second.
GapValues == {0, 500}

RECURSIVE StartAfterGaps(_, _, _)
StartAfterGaps(lens, gaps, k) ==
  IF k = 1 THEN gaps[1]
  ELSE StartAfterGaps(lens, gaps, k - 1) + lens[k - 1] + gaps[k]

\* Segments as a caption file gives them: gaps[k] of silence before
\* segment k.
MkSegmentsWithGaps(lens, gaps) ==
  [k \in DOMAIN lens |->
     [idx |-> k - 1, start |-> StartAfterGaps(lens, gaps, k),
      end |-> StartAfterGaps(lens, gaps, k) + lens[k], text |-> <<>>]]

\* build_video after its loop: one clip per segment, each of its segment's
\* duration.
InitTimeline ==
  /\ \E n \in 1..MaxClips :
       \E lens \in [1..n -> ClipDurs], gaps \in [1..n -> GapValues] :
       /\ segments = MkSegmentsWithGaps(lens, gaps)
       /\ built_clips = [k \in 1..n |-> [idx |-> k - 1, duration |-> lens[k]]]
       /\ i = n + 1
  /\ subs = FALSE
  /\ custom_queries = [k \in {} |-> <<>>]
  /\ keys \in KeyConfigs
  /\ style = "general"
  /\ title = <<>>
  /\ fps = 0
  /\ transitions = FALSE
  /\ total_dur = 0
  /\ pc = "concat"
  /\ query = <<>>
  /\ url = None
  /\ asset_type = "none"
  /\ clip = NoClip
  /\ used_urls = {}
  /\ video = NoVideo
  /\ final = "none"
  /\ calls = <<>>
  /\ cands = {}
  /\ returned = {}
  /\ why = "none"
  /\ abortedAt = "none"
  /\ arg = <<>>
  /\ res = <<>>

NextTimeline == Concatenate \/ Reconcile \/ Export

SpecTimeline == InitTimeline /\ [][NextTimeline]_vars


(* --------------------------------- Claims ------------------------------ *)

\* C1: every clip appended to built_clips lasts exactly
\* max(0.1, segment.end - segment.start) of its segment, whichever branch
\* built it and with or without a subtitle.
C1_ClipDurationIsSegmentDuration ==
  /\ Len(built_clips) <= Len(segments)
  /\ \A k \in DOMAIN built_clips :
       /\ built_clips[k].idx = segments[k].idx
       /\ built_clips[k].duration =
            IF segments[k].end - segments[k].start > 100
            THEN segments[k].end - segments[k].start ELSE 100

\* A video clip that came out of the cut at another duration than its
\* segment's has been appended.
C1_Witness ==
  /\ pc \in {"fetch", "concat"}
  /\ built_clips # <<>>
  /\ clip.kind = "video"
  /\ clip.duration # built_clips[Len(built_clips)].duration

\* C2: once the reconciliation is done, the timeline lasts exactly as long
\* as the narration, whether it was trimmed, padded or left alone, with or
\* without transitions.
C2_TimelineMatchesNarration ==
  pc \in {"export", "done"} \/ (pc = "aborted" /\ abortedAt = "export")
    => /\ video.duration = total_dur
       /\ video.tail = "trim" <=> SumDur(video.clips) > total_dur
       /\ video.tail = "pad" <=> SumDur(video.clips) < total_dur
       /\ video.tail = "pad" => SumDur(video.clips) + video.pad = total_dur

\* A timeline with a fade has been trimmed down to the narration.
C2_Witness ==
  /\ pc = "export"
  /\ transitions
  /\ video.tail = "trim"
  /\ \E k \in DOMAIN video.clips : video.clips[k].fadeout > 0

\* C3: with transitions on, the overlap of every boundary (in units of
\* 1/(4 fps) ms) is at least 0, at most 0.25 s, at most 6/fps, at most a
\* quarter of either neighbour, the same on both sides of the boundary, and
\* a boundary that fades has at least one frame of overlap.
C3_OverlapBounded ==
  pc \in {"reconcile", "export", "done"} /\ transitions
    => \A k \in 1..(Len(video.clips) - 1) :
         LET ov == video.clips[k].fadeout
         IN  /\ ov >= 0
             /\ ov <= 250 * 4 * fps
             /\ ov <= 6 * 1000 * 4
             /\ ov <= video.clips[k].duration * fps
             /\ ov <= video.clips[k + 1].duration * fps
             /\ video.clips[k + 1].fadein = ov
             /\ ov # 0 => ov >= 1000 * 4

\* A boundary fades with an overlap that a clip's quarter, not the 0.25 s cap
\* nor the 6 frames, decides.
C3_Witness ==
  /\ pc = "reconcile"
  /\ transitions
  /\ \E k \in 1..(Len(video.clips) - 1) :
       /\ video.clips[k].fadeout > 0
       /\ video.clips[k].fadeout = video.clips[k].duration * fps
       /\ video.clips[k].fadeout < 250 * 4 * fps
       /\ video.clips[k].fadeout < 6 * 1000 * 4

\* C4: the resolver does not hand out a locator it handed out for an earlier
\* segment while the current candidates hold one not handed out yet.
C4_NoReuseWhileUnused ==
  pc = "build" /\ url # None /\ url \in returned => cands \subseteq returned

C6_NoAssetGivesPlaceholder ==
  [][
      /\ (pc = "build" /\ Len(calls) = 2
            /\ calls[1].url = None /\ calls[2].url = None)
          => (/\ pc' = "subs"
              /\ clip'.kind \in {"gradient", "solid"}
              /\ clip'.duration = IF Seg.end - Seg.start > 100
                                  THEN Seg.end - Seg.start ELSE 100
              /\ why' = "no_asset"
              /\ built_clips' = built_clips
              /\ i' = i)
      /\ (pc = "subs" /\ why = "no_asset")
          => (/\ pc' = IF i < Len(segments) THEN "fetch" ELSE "concat"
              /\ i' = i + 1
              /\ Len(built_clips') = i)
  ]_vars

\* A segment with no source at all (no key set) got the solid placeholder.
C6_Witness ==
  /\ pc = "subs"
  /\ why = "no_asset"
  /\ clip.kind = "solid"
  /\ ~primary /\ ~fallback /\ ~image_fallback

\* C7: the resolver is called a second time, with the simplified query, iff
\* the first call returned no asset; never more than twice for a segment; and
\* the build step sees no asset only after both calls returned none.
C7_RetryIffFirstCallEmpty ==
  /\ Len(calls) <= 2
  /\ pc = "retry" => (Len(calls) = 1 /\ calls[1].url = None)
  /\ pc = "build"
       => (/\ Len(calls) \in {1, 2}
           /\ (Len(calls) = 2) <=> (calls[1].url = None)
           /\ url = calls[Len(calls)].url
           /\ (Len(calls) = 2)
                => (calls[2].query \in simplify_query(calls[1].query, style, title))
           /\ (url = None)
                => (Len(calls) = 2 /\ calls[1].url = None /\ calls[2].url = None))

\* The first call returned nothing and the simplified one an asset.
C7_Witness ==
  /\ pc = "build"
  /\ Len(calls) = 2
  /\ calls[1].url = None
  /\ url # None

\* C8: a search that raises counts as a search that returned nothing:
\* fetch_asset_url never raises, and it returns the first locator of the first
\* tier that exists, did not raise and returned a non-empty list, or None if
\* there is no such tier.
C8_RaisingSourceIsEmpty ==
  pc = "resolved"
    => LET Yield(avail, o) == IF avail /\ ~o.raised THEN o.urls ELSE <<>>
           yp == Yield(arg.primary, arg.po)
           yf == Yield(arg.fallback, arg.fo)
           yi == Yield(arg.image_fallback, arg.io)
       IN  /\ ~res.raised
           /\ (yp # <<>>) => (res.url = yp[1] /\ res.asset_type = "video")
           /\ (yp = <<>> /\ yf # <<>>)
                => (res.url = yf[1] /\ res.asset_type = "video")
           /\ (yp = <<>> /\ yf = <<>> /\ yi # <<>>)
                => (res.url = yi[1] /\ res.asset_type = "image")
           /\ (yp = <<>> /\ yf = <<>> /\ yi = <<>>)
                => (res.url = None /\ res.asset_type = "none")

\* The primary search raised and the fallback's first locator was returned.
C8_Witness ==
  /\ pc = "resolved"
  /\ arg.primary /\ arg.po.raised
  /\ arg.fallback /\ ~arg.fo.raised /\ arg.fo.urls # <<>>
  /\ res.url = arg.fo.urls[1]
  /\ ~res.raised

\* C9 as written: when the mapping has a query for the segment, every
\* resolver call made for the segment uses that query.
C9_CustomQueryOnEveryAttempt ==
  (pc \in {"retry", "build"} /\ IdxStr(Seg.idx) \in DOMAIN custom_queries)
    => \A k \in DOMAIN calls : calls[k].query = custom_queries[IdxStr(Seg.idx)]

\* C9, amended: when the mapping has a query for the segment, the first
\* resolver call uses that query and not a generated one; a second call, made
\* when the first returned no asset, uses the simplification of the custom
\* query (for "the city": its keyword "city", with the style's name after it
\* for a named style).
C9_CustomQueryFirstThenSimplified ==
  (pc \in {"retry", "build"} /\ IdxStr(Seg.idx) \in DOMAIN custom_queries)
    => (/\ calls[1].query = custom_queries[IdxStr(Seg.idx)]
        /\ (Len(calls) = 2)
             => (/\ calls[1].url = None
                 /\ calls[1].query = <<"the", "city">>
                 /\ calls[2].query = IF style = "general"
                                     THEN <<"city">> ELSE <<"city", style>>))

\* A segment with a custom query was retried with the simplified query.
C9_Witness ==
  /\ pc = "build"
  /\ IdxStr(Seg.idx) \in DOMAIN custom_queries
  /\ Len(calls) = 2
  /\ calls[1].query = custom_queries[IdxStr(Seg.idx)]
  /\ calls[2].query # custom_queries[IdxStr(Seg.idx)]

C11_CutWindowInsideSource ==
  (pc \in {"pin", "pinned"} /\ arg.e.d > arg.seg_dur + 200)
    => (/\ res.kind = "video"
        /\ res.ext = "none"
        /\ res.content = arg.e.d
        /\ res.offset >= 0
        /\ res.offset <= arg.e.d - arg.seg_dur
        /\ res.duration = arg.seg_dur
        /\ res.offset + res.duration <= arg.e.d)

\* A 20.0 s video for a 5.0 s segment cut at the far end: start 15.0 s.
C11_Witness ==
  /\ pc = "pin"
  /\ arg.e.d = 20000
  /\ arg.seg_dur = 5000
  /\ res.offset = 15000
  /\ res.duration = 5000

\* C12: when the video file is smaller than 10000 bytes, cannot be decoded
\* or reports a duration <= 0, nothing is raised and the segment's clip is
\* the placeholder (gradient or solid) with the segment's duration: no
\* frame of the file is in it.
C12_InvalidFileGivesPlaceholder ==
  (/\ pc = "filed"
   /\ FileAtPath(arg).exists
   /\ \/ FileAtPath(arg).size < 10000
      \/ ~FileAtPath(arg).decodable
      \/ FileAtPath(arg).d <= 0)
    => (/\ ~res.raised
        /\ res.clip.kind \in {"gradient", "solid"}
        /\ res.clip.duration = arg.seg_dur
        /\ res.clip.content = arg.seg_dur
        /\ res.clip.ext = "none")

\* A decodable file of full size that reports duration 0 gave the gradient.
C12_Witness ==
  /\ pc = "filed"
  /\ ~arg.cached.exists
  /\ arg.request_ok
  /\ arg.fetched.size = 500000
  /\ arg.fetched.decodable
  /\ arg.fetched.d = 0
  /\ arg.seg_dur = 2000
  /\ res.why = "invalid"
  /\ res.clip.kind = "gradient"
  /\ res.clip.duration = 2000

C14_NarrationOnlyOnMixFailure ==
  (/\ pc \in {"write", "done", "aborted"}
   /\ \/ ~arg.e.background_music
      \/ ~arg.e.acquire_ok
      \/ ~arg.e.load_ok
      \/ (arg.e.d < arg.total /\ ~arg.e.loop_ok)
      \/ (arg.e.d < arg.total /\ arg.e.d = 0)
      \/ ~arg.e.fx_ok)
    => (/\ ~res.raised
        /\ res.audio = "narration"
        /\ res.narration_gain = 1000
        /\ res.bg = NoBg
        /\ (pc = "aborted") => abortedAt = "export"
        /\ (pc = "done") => final = "narration")

\* Music on, a 1.5 s track acquired for a 2.0 s narration, and moviepy's
\* concatenate_audioclips raising: exported with the narration alone.
C14_Witness ==
  /\ pc = "done"
  /\ arg.e.background_music
  /\ arg.e.acquire_ok
  /\ arg.e.load_ok
  /\ arg.e.d = 1500
  /\ arg.total = 2000
  /\ ~arg.e.loop_ok
  /\ res.why = "loop"
  /\ final = "narration"

\* C15: the background track in a mix lasts exactly as long as the
\* narration.  A shorter track is repeated int(target/length)+1 times, which
\* is never shorter than the target, and cut to it; a track that is not
\* shorter is cut to it.  The track's gain is music_volume, the narration's
\* gain is 1.
C15_BackgroundFitsNarration ==
  (pc \in {"write", "done"} /\ res.audio = "mixed")
    => (/\ res.bg.duration = arg.total
        /\ (arg.e.d < arg.total)
             => (/\ res.bg.copies = (arg.total \div arg.e.d) + 1
                 /\ res.bg.looped = res.bg.copies * arg.e.d
                 /\ res.bg.looped >= arg.total)
        /\ (arg.e.d >= arg.total)
             => (res.bg.copies = 1 /\ res.bg.looped = arg.e.d)
        /\ res.bg.gain = arg.e.volume
        /\ res.narration_gain = 1000)

\* A 0.7 s track under a 2.1 s narration: four copies (2.8 s) cut to 2.1 s,
\* mixed at 0.1.
C15_Witness ==
  /\ pc = "write"
  /\ res.audio = "mixed"
  /\ arg.e.d = 700
  /\ arg.total = 2100
  /\ arg.e.volume = 100
  /\ res.bg.copies = 4
  /\ res.bg.looped = 2800
  /\ res.bg.duration = 2100
  /\ res.bg.gain = 100

\* C16 as stated: for every frame width and height from 1 up and every
\* measured text, the subtitle box is at least 2 wide and 2 high and at
\* most 90% of the frame wide.
C16_BoxWithin90Percent ==
  (pc = "rendered")
    => (/\ res.box_w >= 2
        /\ res.box_h >= 2
        /\ 10 * res.box_w <= 9 * arg.w)

\* C16, amended: the box is at least 2 wide and 2 high, and at most
\* max(10, int(0.9 * width)) wide: at most 90% of the frame for every frame
\* 12 or more pixels wide.
C16_BoxWithinMaxTextWidth ==
  (pc = "rendered")
    => (/\ res.box_w >= 2
        /\ res.box_h >= 2
        /\ (arg.w >= 12) => (10 * res.box_w <= 9 * arg.w)
        /\ (arg.w < 12) => (res.box_w <= 10))

\* A line of 3000 pixels on a 1920-pixel frame: the box is 1728 wide.
C16_Witness ==
  /\ pc = "rendered"
  /\ arg.w = 1920
  /\ arg.text_w = 3000
  /\ res.box_w = 1728

\* C17: a locator the resolver returned is in used_urls once the call has
\* returned, and used_urls holds nothing but locators the resolver returned
\* for this segment or an earlier one.
C17_ReturnedLocatorRecorded ==
  /\ (pc = "build" /\ url # None) => url \in used_urls
  /\ used_urls \subseteq (returned \cup (IF url = None THEN {} ELSE {url}))

\* C18: for a text that is not empty, generate (in its full-text mode)
\* returns at most 2 keywords of the title, none without a title, followed
\* by the first 100 characters of the text: the words of the text in order,
\* the last one possibly cut, never more than 100 characters, the whole text
\* if it has no more than 100, and no fewer than 99 otherwise (the 100th may
\* be a space).  Every query generate or simplify returns, for any text,
\* style and title, has a word in it, and no word of it is empty.
C18_FirstHundredCharacters ==
  /\ (pc = "generated" /\ arg.use_full_text /\ arg.text # <<>>)
       => \E k \in 0..2 :
            LET tk   == SubSeq(res, 1, k)
                body == SubSeq(res, k + 1, Len(res))
            IN  /\ k <= Len(res)
                /\ (arg.title = <<>>) => (k = 0)
                /\ Range(tk) \subseteq (Range(arg.title) \ {"the"})
                /\ Len(body) >= 1
                /\ Len(body) <= Len(arg.text)
                /\ \A j \in 1..(Len(body) - 1) : body[j] = arg.text[j]
                /\ LET last == body[Len(body)]
                       full == arg.text[Len(body)]
                   IN  /\ Len(last) >= 1
                       /\ Len(last) <= Len(full)
                       /\ last = SubSeq(full, 1, Len(last))
                /\ CharLen(body) <= 100
                /\ (CharLen(arg.text) <= 100) => (body = arg.text)
                /\ (CharLen(arg.text) > 100) => (CharLen(body) >= 99)
  /\ (pc \in {"generated", "simplified"})
       => (res # <<>> /\ \A j \in DOMAIN res : Len(res[j]) >= 1)

\* The 104-character text under a title: two title keywords, then nine
\* whole words and the first letter of the tenth.
C18_Witness ==
  /\ pc = "generated"
  /\ arg.use_full_text
  /\ arg.text = LongText
  /\ arg.title = <<"the", "ocean", "city", "forest">>
  /\ res = <<"city", "forest">> \o SubSeq(LongText, 1, 9) \o <<"o">>

\* C19: with transitions off, the clip of every segment starts in the
\* timeline at the segment's start and ends at the segment's end.
C19_ClipsSyncedToSegments ==
  (pc = "reconcile" /\ ~transitions)
    => \A k \in DOMAIN segments :
         /\ TimelineStart(video.clips, k) = segments[k].start
         /\ TimelineStart(video.clips, k) + video.clips[k].duration
              = segments[k].end

\* C20: with transitions on, the boundary between two clips fades out the
\* first and fades in the second, both by min(6/fps, 0.25, a quarter of
\* each), exactly when that minimum is at least one frame (1/fps);
\* otherwise neither clip gets a fade there.  The clips keep their
\* durations, and what a boundary gets is decided by its own two clips
\* alone.  (Overlaps in units of 1/(4 fps) ms: one frame is 4000.)
C20_FadeIffOverlapAtLeastOneFrame ==
  (pc = "reconcile" /\ transitions)
    => (/\ Len(video.clips) = Len(built_clips)
        /\ \A k \in DOMAIN built_clips :
             video.clips[k].duration = built_clips[k].duration
        /\ video.clips[1].fadein = 0
        /\ video.clips[Len(video.clips)].fadeout = 0
        /\ \A k \in 1..(Len(built_clips) - 1) :
             LET a  == built_clips[k].duration
                 n  == built_clips[k + 1].duration
                 f1 == IF a * fps < n * fps THEN a * fps ELSE n * fps
                 f2 == IF 24000 < 1000 * fps THEN 24000 ELSE 1000 * fps
                 m  == IF f1 < f2 THEN f1 ELSE f2
             IN  /\ (m >= 4000)
                      => (/\ video.clips[k].fadeout = m
                          /\ video.clips[k + 1].fadein = m)
                 /\ (m < 4000)
                      => (/\ video.clips[k].fadeout = 0
                          /\ video.clips[k + 1].fadein = 0))

\* Three clips of 1.0, 2.0 and 0.1 s at 4 fps: the first boundary fades by
\* exactly one frame (0.25 s), the second is a hard cut.
C20_Witness ==
  /\ pc = "reconcile"
  /\ transitions
  /\ fps = 4
  /\ Len(video.clips) = 3
  /\ video.clips[1].duration = 1000
  /\ video.clips[2].duration = 2000
  /\ video.clips[3].duration = 100
  /\ video.clips[1].fadeout = 4000
  /\ video.clips[2].fadein = 4000
  /\ video.clips[2].fadeout = 0
  /\ video.clips[3].fadein = 0

\* C21: the sources are asked in the order primary, fallback, image, each
\* only if it exists and every one before it gave no candidate (a search
\* that raised gave none).  The image source is asked only when neither
\* video source gave a candidate; the result is an image only then, a video
\* whenever a video source gave a candidate, and "none" with no locator
\* exactly when no source that exists gave anything.
C21_SourcesInFixedOrder ==
  pc = "resolved"
    => LET Yield(avail, o) == IF avail /\ ~o.raised THEN o.urls ELSE <<>>
           yp == Yield(arg.primary, arg.po)
           yf == Yield(arg.fallback, arg.fo)
           yi == Yield(arg.image_fallback, arg.io)
           Asked(t) == \E k \in DOMAIN res.asked : res.asked[k] = t
           Pos(t) == CHOOSE k \in DOMAIN res.asked : res.asked[k] = t
       IN  /\ \A j, k \in DOMAIN res.asked :
                (res.asked[j] = res.asked[k]) => (j = k)
           /\ Asked("primary") <=> arg.primary
           /\ Asked("fallback") <=> (arg.fallback /\ yp = <<>>)
           /\ Asked("image") <=> (arg.image_fallback /\ yp = <<>> /\ yf = <<>>)
           /\ (Asked("primary") /\ Asked("fallback"))
                => (Pos("primary") < Pos("fallback"))
           /\ (Asked("primary") /\ Asked("image"))
                => (Pos("primary") < Pos("image"))
           /\ (Asked("fallback") /\ Asked("image"))
                => (Pos("fallback") < Pos("image"))
           /\ (res.asset_type = "image")
                => (yp = <<>> /\ yf = <<>> /\ yi # <<>>)
           /\ (yp # <<>> \/ yf # <<>>) => (res.asset_type = "video")
           /\ (res.asset_type = "none") <=> (res.url = None)
           /\ (res.asset_type = "none")
                <=> (yp = <<>> /\ yf = <<>> /\ yi = <<>>)

\* All three sources exist, the primary gave nothing, the fallback raised,
\* the image source gave a locator: asked in order, an image returned.
C21_Witness ==
  /\ pc = "resolved"
  /\ arg.primary /\ ~arg.po.raised /\ arg.po.urls = <<>>
  /\ arg.fallback /\ arg.fo.raised
  /\ arg.image_fallback /\ arg.io.urls # <<>>
  /\ res.asked = <<"primary", "fallback", "image">>
  /\ res.asset_type = "image"
  /\ res.url = arg.io.urls[1]

\* C22: before the reconciliation the timeline lasts the sum of its clips'
\* durations less the sum of the overlaps of its boundaries (both sides in
\* units of 1/(4 fps) ms).
C22_DurationIsSumMinusOverlaps ==
  (pc = "reconcile")
    => (video.duration * 4 * fps
          = SumDur(built_clips) * 4 * fps - SumFadeOut(video.clips))

\* C23: the reconciliation touches only the end of the timeline.  The clips
\* and their order stay as concatenated and the result starts at offset 0;
\* a timeline longer than the narration is cut to its first total_dur
\* milliseconds, a shorter one is kept whole and followed by one black
\* filler of exactly the missing duration, an equal one is left as it is.
C23_OnlyTailChanges ==
  [][pc = "reconcile"
       => /\ video'.clips = video.clips
          /\ video'.from = 0
          /\ (video.duration > total_dur')
               => /\ video'.tail = "trim"
                  /\ video'.pad = 0
                  /\ video'.duration = total_dur'
          /\ (video.duration < total_dur')
               => /\ video'.tail = "pad"
                  /\ video'.pad = total_dur' - video.duration
                  /\ video'.pad > 0
                  /\ video'.duration = video.duration + video'.pad
          /\ (video.duration = total_dur')
               => /\ video'.tail = "none"
                  /\ video'.pad = 0
                  /\ video'.duration = video.duration]_vars

\* A timeline of three clips that was longer than the narration has been
\* cut at the end.
C23_Witness ==
  /\ pc = "export"
  /\ Len(video.clips) = 3
  /\ video.tail = "trim"
  /\ video.from = 0
  /\ SumDur(video.clips) > video.duration

\* C24: after the minimum-duration pass there are as many segments as
\* before, in the same order; a segment whose raw end - start was below the
\* minimum has the same index, start and text and ends at start + minimum,
\* every other segment is the one that was loaded, and every segment lasts
\* at least max(0.1 s, minimum).
C24_ClampReplacesOnlyShort ==
  (pc = "start")
    => /\ Len(segments) = Len(arg.captions)
       /\ \A k \in DOMAIN segments :
            LET raw == arg.captions[k] IN
            /\ (raw.end - raw.start < arg.min_seg)
                 => segments[k] = [idx |-> raw.idx, start |-> raw.start,
                                   end |-> raw.start + arg.min_seg,
                                   text |-> raw.text]
            /\ ~(raw.end - raw.start < arg.min_seg)
                 => segments[k] = raw
            /\ Dur(segments[k]) >= Max(MinDur, arg.min_seg)

\* The second of two segments was too short and starts after 0; it has
\* been pushed out, the first one was long enough and is as loaded.
C24_Witness ==
  /\ pc = "start"
  /\ Len(segments) = 2
  /\ arg.min_seg = 2000
  /\ arg.captions[1].end - arg.captions[1].start = 2000
  /\ arg.captions[2].end - arg.captions[2].start = 50
  /\ segments[1] = arg.captions[1]
  /\ segments[2].start = 2000
  /\ segments[2].end = 4000

\* C25: the loop handles one segment at a time, in the order of the list,
\* which is the order of the indices.  While segment i is being resolved,
\* retried, built or captioned, exactly the clips of the i - 1 segments
\* before it have been appended; the k-th appended clip and the k-th clip
\* of the timeline are the ones built for the k-th segment.
C25_SequentialInIndexOrder ==
  /\ \A k \in DOMAIN segments : segments[k].idx = k - 1
  /\ (pc \in {"fetch", "retry", "build", "subs"})
       => /\ i \in DOMAIN segments
          /\ Len(built_clips) = i - 1
  /\ Len(built_clips) <= Len(segments)
  /\ \A k \in DOMAIN built_clips : built_clips[k].idx = segments[k].idx
  /\ (pc \in {"reconcile", "export", "done"})
       => /\ Len(video.clips) = Len(segments)
          /\ \A k \in DOMAIN video.clips :
               video.clips[k].idx = segments[k].idx

\* The second segment is being resolved, the clip of the first one is the
\* only one appended.
C25_Witness ==
  /\ pc = "fetch"
  /\ i = 2
  /\ Len(built_clips) = 1
  /\ built_clips[1].idx = segments[1].idx

\* C26: a valid video whose duration d is between the segment's duration and
\* the segment's duration + 0.2 s is used whole, from offset 0, and pinned
\* to the segment's duration; a clip that starts after offset 0 of its
\* source comes only from a source with d above the segment's duration
\* + 0.2 s.
C26_RandomStartOnlyForLongSource ==
  (pc = "pinned")
    => /\ (arg.seg_dur <= arg.e.d /\ arg.e.d <= arg.seg_dur + CutTolerance)
            => /\ res.kind = "video"
               /\ res.offset = 0
               /\ res.content = arg.e.d
               /\ res.ext = "none"
               /\ res.duration = arg.seg_dur
       /\ (res.offset > 0) => (arg.e.d > arg.seg_dur + CutTolerance)

\* C29: a valid video shorter than the segment is shown from offset 0 of
\* its source, whichever way it was extended.
C29_ExtendedClipStartsAtZero ==
  (pc = "pinned" /\ arg.e.d < arg.seg_dur) => (res.offset = 0)

\* C27: when the video sources give the call several candidates, none of
\* them used before, the call can return any one of them: for every
\* candidate there is an outcome of the call whose locator it is.
C27_EveryCandidateCanBePicked ==
  (pc = "resolve")
    => LET p == CaughtSearch(arg.po).urls
           f == CaughtSearch(arg.fo).urls
           collected == IF arg.primary /\ p # <<>> THEN p
                        ELSE IF arg.fallback /\ f # <<>> THEN f
                        ELSE <<>>
       IN  \A c \in Range(collected) : ENABLED (Resolve /\ res'.url = c)

\* C28: a call of download_asset that returns hands out a file of at least
\* 10000 bytes, and makes a request only if the cached file was missing or
\* too small; a call that raises has made its one request and leaves no
\* file at the asset's path, so that a later call that returns without a
\* request of its own can only follow a call that returned.
C28_FailedDownloadLeavesNoFile ==
  /\ \A k \in DOMAIN res :
       (pc \in {"again", "downloaded"})
         => /\ ~res[k].raised => validate_asset(res[k].file)
            /\ res[k].raised => res[k].requested /\ res[k].file = NoFile
  /\ (pc \in {"again", "downloaded"})
       => (res[1].requested <=> ~validate_asset(arg.cached))
  /\ (pc = "downloaded" /\ ~res[2].raised /\ ~res[2].requested)
       => ~res[1].raised

\* C30: with transitions on, the fade-in and the fade-out of a clip of the
\* timeline together last at most half of the clip (fades are counted in
\* units of 1/(4 fps) ms), so the fade-in is over before the fade-out
\* begins.
C30_FadesFitInClip ==
  (pc \in {"reconcile", "export", "done"} /\ transitions)
    => \A k \in DOMAIN video.clips :
         LET c == video.clips[k] IN
         /\ c.fadein >= 0
         /\ c.fadeout >= 0
         /\ 2 * (c.fadein + c.fadeout) <= c.duration * OverlapDivisor * fps
         /\ c.fadein <= c.duration * OverlapDivisor * fps - c.fadeout

\* An interior clip fades in and out for a quarter of its duration each.
C30_Witness ==
  /\ pc = "reconcile"
  /\ transitions
  /\ Len(video.clips) = 3
  /\ video.clips[2].fadein > 0
  /\ video.clips[2].fadeout > 0
  /\ 2 * (video.clips[2].fadein + video.clips[2].fadeout)
       = video.clips[2].duration * OverlapDivisor * fps

============================================================================
